---- MODULE Spec2Model ----
(***************************************************************************)
(* Model of the CephFS provisioner of cephfs/cephfs-provisioner.go:        *)
(* Provision and Delete of cephFSProvisioner, with parseParameters,        *)
(* parsePVSecret and getClassForVolume, run by provisioner instances that  *)
(* share one secret store, one storage cluster and one allocation agent.   *)
(*                                                                         *)
(* Go strings that the code inspects character by character (parameter     *)
(* keys, the monitors value, the agent-reported path) are sequences of     *)
(* one-character strings; the empty Go string is <<>>.                     *)
(***************************************************************************)
EXTENDS Integers, Sequences, FiniteSets, TLC

\* ------------------------------------------------------------------ bounds

\* Calls (Provision or Delete) started over a run.
MaxCalls == 2

\* ------------------------------------------------------------ string helpers

Range(s) == {s[i] : i \in DOMAIN s}

\* All orders in which the keys of a Go map can be visited by range.
Perms(S) ==
  {s \in [1..Cardinality(S) -> S] : \A i, j \in DOMAIN s : i # j => s[i] # s[j]}

UpperChars ==
  <<"A","B","C","D","E","F","G","H","I","J","K","L","M",
    "N","O","P","Q","R","S","T","U","V","W","X","Y","Z">>
LowerChars ==
  <<"a","b","c","d","e","f","g","h","i","j","k","l","m",
    "n","o","p","q","r","s","t","u","v","w","x","y","z">>

\* The lower-case letter of each upper-case letter.
lowerOf ==
  [u \in Range(UpperChars) |->
     LowerChars[CHOOSE i \in DOMAIN UpperChars : UpperChars[i] = u]]

\* strings.ToLower on one character and on a string.
ToLowerChar(c) == IF c \in DOMAIN lowerOf THEN lowerOf[c] ELSE c
ToLower(s) == [i \in 1..Len(s) |-> ToLowerChar(s[i])]

\* strings.Split(s, sep) for a one-character separator: n separators give
\* n+1 pieces, so the empty string gives one empty piece.
RECURSIVE SplitFrom(_, _, _, _)
SplitFrom(s, sep, i, cur) ==
  IF i > Len(s) THEN <<cur>>
  ELSE IF s[i] = sep THEN <<cur>> \o SplitFrom(s, sep, i + 1, <<>>)
  ELSE SplitFrom(s, sep, i + 1, Append(cur, s[i]))
Split(s, sep) == SplitFrom(s, sep, 1, <<>>)

\* strings.Index(s, c) for a one-character c: zero-based, -1 when absent.
Index(s, c) ==
  IF \E i \in DOMAIN s : s[i] = c
  THEN (CHOOSE i \in DOMAIN s : s[i] = c /\ \A j \in 1..(i - 1) : s[j] # c) - 1
  ELSE -1

\* The Go slice expression s[from:], defined for 0 <= from <= len(s).
SliceFrom(s, from) == SubSeq(s, from + 1, Len(s))

\* ------------------------------------------------------- program constants

provisionerIDAnn == "cephFSProvisionerIdentity"
cephShareAnn == "cephShare"
classAnn == "volume.beta.kubernetes.io/storage-class"

\* The keys parseParameters compares against, as the switch spells them.
caseCluster == <<"c","l","u","s","t","e","r">>
caseMonitors == <<"m","o","n","i","t","o","r","s">>
caseAdminID == <<"a","d","m","i","n","i","d">>
caseAdminSecretName ==
  <<"a","d","m","i","n","s","e","c","r","e","t","n","a","m","e">>
caseAdminSecretNamespace ==
  <<"a","d","m","i","n","s","e","c","r","e","t","n","a","m","e","s","p","a","c","e">>

defaultNamespace == <<"d","e","f","a","u","l","t">>
defaultAdminID == <<"a","d","m","i","n">>
defaultCluster == <<"c","e","p","h">>

Nil == "nil"

\* ------------------------------------------------------------- input sets

\* Parameter keys as storage classes spell them, and one key the provisioner
\* does not know.
keyCluster == <<"c","l","u","s","t","e","r">>
keyMonitors == <<"m","o","n","i","t","o","r","s">>
keyAdminId == <<"a","d","m","i","n","I","d">>
keyAdminSecretName ==
  <<"a","d","m","i","n","S","e","c","r","e","t","N","a","m","e">>
keyAdminSecretNamespace ==
  <<"a","d","m","i","n","S","e","c","r","e","t","N","a","m","e","s","p","a","c","e">>
keyPool == <<"p","o","o","l">>

\* Monitors values: the empty string, a lone comma, and two endpoints (one
\* character each) with a comma between them.
MonValues == {<<>>, <<",">>, <<"a", ",", "b">>}

adminName == <<"a","d","m">>
clusterName == <<"c","1">>
otherAdminID == <<"i","d">>
otherNamespace == <<"n","s","2">>

MonChoices == {{}} \cup {{<<keyMonitors, v>>} : v \in MonValues}
NameChoices ==
  {{}, {<<keyAdminSecretName, <<>>>>}, {<<keyAdminSecretName, adminName>>}}
ExtraChoices ==
  {{}, {<<keyCluster, clusterName>>, <<keyAdminId, otherAdminID>>},
   {<<keyAdminSecretNamespace, otherNamespace>>}, {<<keyPool, <<"x">>>>}}

\* The Go map holding a set of key/value pairs with distinct keys.
MapOf(pairs) ==
  [k \in {p[1] : p \in pairs} |-> (CHOOSE p \in pairs : p[1] = k)[2]]

\* The configuration bundles of requests and storage classes.
Bundles ==
  {MapOf(m \cup n \cup e) : m \in MonChoices, n \in NameChoices, e \in ExtraChoices}

\* Contents of the admin secret object: a map of key names to values.
adminKey == <<"A","Q","A">>
AdminData ==
  {MapOf({}), MapOf({<<"key", adminKey>>}),
   MapOf({<<"key", <<>>>>, <<"other", adminKey>>})}

claimNamespace == <<"n","s","1">>

\* What the agent can print on exit status zero: a JSON object with any of
\* the keys path, user and auth. Text that is no JSON object leaves the
\* record as the empty object does, and is not listed apart. A path is
\* empty, has no "/", starts with "/", or has a prefix before its first "/".
PathValues == {<<>>, <<"v">>, <<"/","v">>, <<"c",":","/","v">>}
reportedUser == <<"u","1">>
grantedAuth == <<"A","Q","B">>
AgentOutputs ==
  {MapOf(p \cup u \cup a) :
     p \in {{}} \cup {{<<"path", v>>} : v \in PathValues},
     u \in {{}} \cup {{<<"user", v>>} : v \in {<<>>, reportedUser}},
     a \in {{}} \cup {{<<"auth", v>>} : v \in {<<>>, grantedAuth}}}

\* json.Unmarshal into a zeroed provisionOutput: a key that is absent leaves
\* its field empty, and the error is not looked at.
Unmarshal(output) ==
  LET field(k) == IF k \in DOMAIN output THEN output[k] ELSE <<>>
  IN  [Path |-> field("path"), User |-> field("user"), Secret |-> field("auth")]

\* ------------------------------------------------------------------ state

Instances == {1, 2}
Slots == {1, 2}

VARIABLES
  identity,   \* identity[i]: the identity field of provisioner instance i
  uuids,      \* number of UUIDs uuid.NewUUID has handed out
  secrets,    \* the secret store: objects [namespace, name, data]
  shares,     \* shares on the storage cluster: [share, user]
  execs,      \* the agent's invocations so far: [mode, share, user, pvName]
  pvs,        \* the volume objects Provision has returned
  call,       \* call[c]: the Provision or Delete call running in slot c
  started     \* number of calls started

vars == <<identity, uuids, secrets, shares, execs, pvs, call, started>>

NoParams == MapOf({})
NoRes == [Path |-> <<>>, User |-> <<>>, Secret |-> <<>>]
\* The zero values of parseParameters' results and of its local variables.
NoConn == [cluster |-> <<>>, adminID |-> <<>>, adminSecret |-> <<>>, mon |-> <<>>]
NoFrame ==
  [cluster |-> <<>>, adminID |-> <<>>, adminSecretName |-> <<>>,
   adminSecretNamespace |-> <<>>, mon |-> <<>>]
NoVolume == [name |-> <<>>, annotations |-> MapOf({}), user |-> <<>>]

\* The exit status of an agent command that has not run.
NotRun == -1

\* A call slot: pc is where the call stands; exit is the exit status of its
\* agent command; pv and err are what it returned (pv is <<>> for a nil
\* volume, or holds the one volume); trace lists the calls it has made to
\* the secret store, the class store and the agent.
IdleCall ==
  [pc |-> "idle", kind |-> Nil, inst |-> 0, selector |-> FALSE,
   parameters |-> NoParams, pvName |-> <<>>, volume |-> NoVolume,
   frame |-> NoFrame, conn |-> NoConn, share |-> <<>>, user |-> <<>>,
   exit |-> NotRun, res |-> NoRes, pv |-> <<>>, err |-> Nil, trace |-> <<>>]

\* newCephFSProvisioner, once per instance, and the admin secret in place.
Init ==
  /\ identity = [i \in Instances |-> i]
  /\ uuids = Cardinality(Instances)
  /\ \E d \in AdminData :
       secrets = {[namespace |-> defaultNamespace, name |-> adminName, data |-> d]}
  /\ shares = {}
  /\ execs = {}
  /\ pvs = {}
  /\ call = [c \in Slots |-> IdleCall]
  /\ started = 0

\* ----------------------------------------------------------- error values

errSelector == "claim Selector is not supported"
errInvalidOption == "invalid option"
errMissingSecretName == "missing Ceph admin secret name"
errGetAdminSecret == "failed to get admin secret"
errMissingMonitors == "missing Ceph monitors"
errCmd == "cmdErr"
errInvalidOutput == "invalid provisioner output"
errCreateSecret == "failed to create secret"
errNoIdentityAnn == "identity annotation not found on PV"
errIgnored == "IgnoredError: identity annotation on PV does not match ours"
errNoShareAnn == "ceph share annotation not found on PV"
errNoClassAnn == "Volume has no class annotation"
errClassGet == "StorageClasses().Get error"
\* A run-time panic of the call (a slice bound out of range).
errPanic == "panic"

\* ---------------------------------------------------------- parseParameters

\* The loop with an unknown key passed over instead of refused.
RECURSIVE rangeParametersSkipUnknown(_, _, _)
rangeParametersSkipUnknown(parameters, order, f) ==
  IF order = <<>> THEN [err |-> Nil, frame |-> f]
  ELSE
    LET k == Head(order)
        v == parameters[k]
        lk == ToLower(k)
        rest == Tail(order)
    IN  IF lk = caseCluster
          THEN rangeParametersSkipUnknown(parameters, rest, [f EXCEPT !.cluster = v])
        ELSE IF lk = caseMonitors
          THEN rangeParametersSkipUnknown(parameters, rest,
                                          [f EXCEPT !.mon = @ \o Split(v, ",")])
        ELSE IF lk = caseAdminID
          THEN rangeParametersSkipUnknown(parameters, rest, [f EXCEPT !.adminID = v])
        ELSE IF lk = caseAdminSecretName
          THEN rangeParametersSkipUnknown(parameters, rest,
                                          [f EXCEPT !.adminSecretName = v])
        ELSE IF lk = caseAdminSecretNamespace
          THEN rangeParametersSkipUnknown(parameters, rest,
                                          [f EXCEPT !.adminSecretNamespace = v])
        ELSE rangeParametersSkipUnknown(parameters, rest, f)

\* The range loop over the parameters, visiting the keys in the given order.
\* An unknown key returns at once with zero values and an error.
RECURSIVE rangeParameters(_, _, _)
rangeParameters(parameters, order, f) ==
  IF order = <<>> THEN [err |-> Nil, frame |-> f]
  ELSE
    LET k == Head(order)
        v == parameters[k]
        lk == ToLower(k)
        rest == Tail(order)
    IN  IF lk = caseCluster
          THEN rangeParameters(parameters, rest, [f EXCEPT !.cluster = v])
        ELSE IF lk = caseMonitors
          THEN rangeParameters(parameters, rest, [f EXCEPT !.mon = @ \o Split(v, ",")])
        ELSE IF lk = caseAdminID
          THEN rangeParameters(parameters, rest, [f EXCEPT !.adminID = v])
        ELSE IF lk = caseAdminSecretName
          THEN rangeParameters(parameters, rest, [f EXCEPT !.adminSecretName = v])
        ELSE IF lk = caseAdminSecretNamespace
          THEN rangeParameters(parameters, rest, [f EXCEPT !.adminSecretNamespace = v])
        ELSE [err |-> errInvalidOption, frame |-> NoFrame]

\* parseParameters with the monitors check ahead of the call of parsePVSecret.
parseKeysMonitorsFirst(parameters, order) ==
  LET defaults ==
        [NoFrame EXCEPT !.adminSecretNamespace = defaultNamespace,
                        !.adminID = defaultAdminID, !.cluster = defaultCluster]
      r == rangeParameters(parameters, order, defaults)
  IN  IF r.err # Nil THEN r
      ELSE IF r.frame.adminSecretName = <<>>
        THEN [err |-> errMissingSecretName, frame |-> NoFrame]
      ELSE IF Len(r.frame.mon) < 1
        THEN [err |-> errMissingMonitors, frame |-> NoFrame]
      ELSE r

\* parseParameters up to its call of parsePVSecret: the defaults, the loop and
\* the check of the admin secret name.
parseKeys(parameters, order) ==
  LET defaults ==
        [NoFrame EXCEPT !.adminSecretNamespace = defaultNamespace,
                        !.adminID = defaultAdminID, !.cluster = defaultCluster]
      r == rangeParameters(parameters, order, defaults)
  IN  IF r.err # Nil THEN r
      ELSE IF r.frame.adminSecretName = <<>>
        THEN [err |-> errMissingSecretName, frame |-> NoFrame]
      ELSE r

\* The client given to newCephFSProvisioner: main passes a clientset.
clientIsNil == FALSE

\* parsePVSecret: every outcome of reading the secret and taking the value of
\* an entry of its data; the loop over the map returns at its first entry,
\* which can be any of them.
parsePVSecret(namespace, secretName) ==
  LET found == {o \in secrets : o.namespace = namespace /\ o.name = secretName}
  IN  IF clientIsNil THEN {[err |-> "Cannot get kube client", value |-> <<>>]}
      ELSE {[err |-> "Secrets().Get error", value |-> <<>>]} \cup
           UNION {IF DOMAIN o.data = {}
                    THEN {[err |-> "no secret found", value |-> <<>>]}
                    ELSE {[err |-> Nil, value |-> o.data[k]] : k \in DOMAIN o.data}
                  : o \in found}

\* The monitors check that ends parseParameters, and what it returns.
parseResult(f, adminSecret) ==
  IF Len(f.mon) < 1 THEN [err |-> errMissingMonitors, conn |-> NoConn]
  ELSE [err |-> Nil,
        conn |-> [cluster |-> f.cluster, adminID |-> f.adminID,
                  adminSecret |-> adminSecret, mon |-> f.mon]]

\* ------------------------------------------------------------------ calls

Returned(cur, pv, err) == [cur EXCEPT !.pc = "done", !.pv = pv, !.err = err]
Fail(cur, err) == Returned(cur, <<>>, err)
Did(cur, step) == [cur EXCEPT !.trace = Append(@, step)]

sharePrefix == "kubernetes-dynamic-pvc-"
userPrefix == "kubernetes-dynamic-user-"
\* fmt.Sprintf of a prefix and a UUID; uuid.NewUUID gives UUID number n.
shareName(n) == <<sharePrefix, n>>
\* A user name that does not take the UUID in.
userNameFixed(n) == <<userPrefix, 0>>

userName(n) == <<userPrefix, n>>
secretNameOf(user) == <<"ceph-", user, "-secret">>

\* The first part of a call of parseParameters by a call standing at cur: the
\* loop and the name check, then on to parsePVSecret.
afterParseKeys(cur, parameters, order) ==
  LET r == parseKeys(parameters, order)
  IN  IF r.err # Nil THEN Fail(cur, r.err)
      ELSE [cur EXCEPT !.pc = "getSecret", !.frame = r.frame]

\* Provision without its selector check.
provisionStartNoSelector(cur, parameters, order) ==
  afterParseKeys(cur, parameters, order)

\* Provision's selector check, and on to parseParameters.
provisionStart(cur, parameters, order) ==
  IF cur.selector THEN Fail(cur, errSelector)
  ELSE afterParseKeys(cur, parameters, order)

\* Provision up to the secret store read of parseParameters: the selector
\* check and the parameter loop, on a request with one of the given bundles.
ProvisionBegin(c, bundles) ==
  /\ call[c].pc = "idle"
  /\ started < MaxCalls
  /\ \E i \in Instances, selector \in BOOLEAN, parameters \in bundles :
       \E order \in Perms(DOMAIN parameters) :
         LET cur == [IdleCall EXCEPT !.kind = "Provision", !.inst = i,
                                     !.selector = selector,
                                     !.parameters = parameters,
                                     !.pvName = <<"pv", started>>]
         IN  call' = [call EXCEPT ![c] = provisionStart(cur, parameters, order)]
  /\ started' = started + 1
  /\ UNCHANGED <<identity, uuids, secrets, shares, execs, pvs>>

\* Delete taking the user from the volume's secret reference.
deleteUserFromSecretRef(volume) == volume.secretRef

\* The user Delete hands to the agent: the one recorded on the volume.
deleteUser(volume) == volume.user

\* The rest of parseParameters, for Provision and for Delete: parsePVSecret
\* and the monitors check; then the caller up to its agent command, which for
\* Provision draws the share and user names and for Delete reads the user
\* recorded on the volume.
GetSecret(c) ==
  /\ call[c].pc = "getSecret"
  /\ LET cur == Did(call[c], "SecretGet")
         f == cur.frame
     IN  \E s \in parsePVSecret(f.adminSecretNamespace, f.adminSecretName) :
           LET r == parseResult(f, s.value)
           IN  IF s.err # Nil
                 THEN /\ call' = [call EXCEPT ![c] = Fail(cur, errGetAdminSecret)]
                      /\ UNCHANGED uuids
               ELSE IF r.err # Nil
                 THEN /\ call' = [call EXCEPT ![c] = Fail(cur, r.err)]
                      /\ UNCHANGED uuids
               ELSE IF cur.kind = "Provision"
                 THEN /\ call' = [call EXCEPT ![c] =
                                    [cur EXCEPT !.pc = "exec", !.conn = r.conn,
                                                !.share = shareName(uuids),
                                                !.user = userName(uuids + 1)]]
                      /\ uuids' = uuids + 2
               ELSE /\ call' = [call EXCEPT ![c] =
                                  [cur EXCEPT !.pc = "exec", !.conn = r.conn,
                                              !.user = deleteUser(cur.volume)]]
                    /\ UNCHANGED uuids
  /\ UNCHANGED <<identity, secrets, shares, execs, pvs, started>>

\* The agent's exit statuses.
ExitStatuses == {0, 1}

\* The command's error never looked at.
cmdFailedNever(status) == FALSE

\* Whether the command's error is set: the agent exited with a status that is
\* not zero.
cmdFailed(status) == status # 0

\* The validation without its check of the path.
invalidOutputNoPath(res) == res.User = <<>> \/ res.Secret = <<>>

\* Provision's validation of the agent's output record.
invalidOutput(res) == res.User = <<>> \/ res.Secret = <<>> \/ res.Path = <<>>

\* Provision's agent command in create mode and the validation of its output,
\* the agent printing one of the given outputs. On exit status zero the agent
\* has made the share for the user.
ExecCreate(c, outputs) ==
  /\ call[c].pc = "exec"
  /\ call[c].kind = "Provision"
  /\ \E status \in ExitStatuses, output \in outputs :
       LET cur == [Did(call[c], "AgentCreate") EXCEPT !.exit = status]
           res == Unmarshal(output)
       IN  /\ execs' = execs \cup {[mode |-> "create", share |-> cur.share,
                                    user |-> cur.user, pvName |-> cur.pvName]}
           /\ shares' = IF status = 0
                          THEN shares \cup {[share |-> cur.share, user |-> cur.user]}
                          ELSE shares
           /\ call' = [call EXCEPT ![c] =
                IF cmdFailed(status) THEN Fail(cur, errCmd)
                ELSE IF invalidOutput(res)
                  THEN Fail([cur EXCEPT !.res = res], errInvalidOutput)
                ELSE [cur EXCEPT !.pc = "createSecret", !.res = res]]
  /\ UNCHANGED <<identity, uuids, secrets, pvs, started>>

\* The volume stamped with a UUID drawn for it, not with the instance's.
volumeOfFreshIdentity(cur) ==
  [name |-> cur.pvName,
   annotations |-> MapOf({<<provisionerIDAnn, uuids>>,
                          <<cephShareAnn, cur.share>>}),
   monitors |-> cur.conn.mon,
   path |-> SliceFrom(cur.res.Path, Index(cur.res.Path, "/")),
   secretRef |-> secretNameOf(cur.user),
   user |-> cur.user]

\* The volume with the user the agent reported in place of the generated one.
volumeOfAgentUser(cur) ==
  [name |-> cur.pvName,
   annotations |-> MapOf({<<provisionerIDAnn, identity[cur.inst]>>,
                          <<cephShareAnn, cur.share>>}),
   monitors |-> cur.conn.mon,
   path |-> SliceFrom(cur.res.Path, Index(cur.res.Path, "/")),
   secretRef |-> secretNameOf(cur.user),
   user |-> cur.res.User]

\* The PersistentVolume Provision builds.
volumeOf(cur) ==
  [name |-> cur.pvName,
   annotations |-> MapOf({<<provisionerIDAnn, identity[cur.inst]>>,
                          <<cephShareAnn, cur.share>>}),
   monitors |-> cur.conn.mon,
   path |-> SliceFrom(cur.res.Path, Index(cur.res.Path, "/")),
   secretRef |-> secretNameOf(cur.user),
   user |-> cur.user]

\* A failed creation of the secret followed by a rollback of the share.
createFailedRollback(c, cur) ==
  /\ call' = [call EXCEPT ![c] = Fail(Did(cur, "AgentDestroy"), errCreateSecret)]
  /\ shares' = shares \ {[share |-> cur.share, user |-> cur.user]}
  /\ execs' = execs \cup {[mode |-> "destroy", share |-> cur.share,
                           user |-> cur.user, pvName |-> cur.pvName]}
  /\ UNCHANGED <<secrets, pvs>>

\* Provision when the creation of the secret fails: it returns the error and
\* does nothing else.
createFailed(c, cur) ==
  /\ call' = [call EXCEPT ![c] = Fail(cur, errCreateSecret)]
  /\ UNCHANGED <<secrets, pvs, shares, execs>>

\* The secret made in the namespace of the admin secret, not of the claim.
secretOfDefaultNamespace(cur) ==
  [namespace |-> defaultNamespace, name |-> secretNameOf(cur.user),
   data |-> MapOf({<<"key", cur.res.Secret>>})]

\* The secret Provision builds: in the claim's namespace, named after the
\* generated user, holding the secret value the agent granted.
secretOf(cur) ==
  [namespace |-> claimNamespace, name |-> secretNameOf(cur.user),
   data |-> MapOf({<<"key", cur.res.Secret>>})]

\* The end of Provision: the secret is created in the claim's namespace and
\* the volume is built and returned. The path's slice from the index of its
\* first "/" panics when the path has none.
CreateSecret(c) ==
  /\ call[c].pc = "createSecret"
  /\ LET cur == Did(call[c], "SecretCreate")
         secret == secretOf(cur)
     IN  \E created \in BOOLEAN :
           IF ~created THEN createFailed(c, cur)
           ELSE /\ UNCHANGED <<shares, execs>>
                /\ \A o \in secrets :
                     ~(o.namespace = secret.namespace /\ o.name = secret.name)
                /\ secrets' = secrets \cup {secret}
                /\ IF Index(cur.res.Path, "/") < 0
                     THEN /\ call' = [call EXCEPT ![c] = Fail(cur, errPanic)]
                          /\ UNCHANGED pvs
                   ELSE /\ call' = [call EXCEPT ![c] = Returned(cur, <<volumeOf(cur)>>, Nil)]
                        /\ pvs' = pvs \cup {volumeOf(cur)}
  /\ UNCHANGED <<identity, uuids, started>>

\* The volumes Delete can be handed: a volume Provision returned, to which
\* the controller has added the annotation naming its storage class, with any
\* of the three annotations taken away.
className == "cephfs-class"
AnnKeys == {provisionerIDAnn, cephShareAnn, classAnn}
published(pv) ==
  [k \in AnnKeys |-> IF k = classAnn THEN className ELSE pv.annotations[k]]
Volumes ==
  {[pv EXCEPT !.annotations = [k \in keep |-> published(pv)[k]]] :
     pv \in pvs, keep \in SUBSET AnnKeys}

\* The checks without the comparison of identities.
checkAnnotationsNoCompare(ann, id) ==
  IF provisionerIDAnn \notin DOMAIN ann THEN errNoIdentityAnn
  ELSE IF cephShareAnn \notin DOMAIN ann THEN errNoShareAnn
  ELSE Nil

\* The checks with the comparison of identities turned around.
checkAnnotationsInverted(ann, id) ==
  IF provisionerIDAnn \notin DOMAIN ann THEN errNoIdentityAnn
  ELSE IF ann[provisionerIDAnn] = id THEN errIgnored
  ELSE IF cephShareAnn \notin DOMAIN ann THEN errNoShareAnn
  ELSE Nil

\* The checks with the share annotation looked at first.
checkAnnotationsShareFirst(ann, id) ==
  IF cephShareAnn \notin DOMAIN ann THEN errNoShareAnn
  ELSE IF provisionerIDAnn \notin DOMAIN ann THEN errNoIdentityAnn
  ELSE IF ann[provisionerIDAnn] # id THEN errIgnored
  ELSE Nil

\* Delete's checks of the identity and share annotations against the
\* identity of the instance: the error it returns, or Nil to go on.
checkAnnotations(ann, id) ==
  IF provisionerIDAnn \notin DOMAIN ann THEN errNoIdentityAnn
  ELSE IF ann[provisionerIDAnn] # id THEN errIgnored
  ELSE IF cephShareAnn \notin DOMAIN ann THEN errNoShareAnn
  ELSE Nil

\* A class name taken to be there whatever the annotations.
classNamedAlways(ann) == TRUE

\* getClassForVolume's look at the volume's class annotation: whether the
\* volume names a class.
classNamed(ann) == classAnn \in DOMAIN ann

\* Delete up to the class lookup: the identity and share annotations, and
\* getClassForVolume's look at the class annotation.
DeleteBegin(c) ==
  /\ call[c].pc = "idle"
  /\ started < MaxCalls
  /\ \E i \in Instances, volume \in Volumes :
       LET cur == [IdleCall EXCEPT !.kind = "Delete", !.inst = i, !.volume = volume]
           ann == volume.annotations
       IN  call' = [call EXCEPT ![c] =
             IF checkAnnotations(ann, identity[i]) # Nil
               THEN Fail(cur, checkAnnotations(ann, identity[i]))
             ELSE IF ~classNamed(ann)
               THEN Fail([cur EXCEPT !.share = ann[cephShareAnn]], errNoClassAnn)
             ELSE [cur EXCEPT !.pc = "getClass", !.share = ann[cephShareAnn]]]
  /\ started' = started + 1
  /\ UNCHANGED <<identity, uuids, secrets, shares, execs, pvs>>

\* getClassForVolume's read of the storage class, which fails or gives a
\* class with one of the given bundles as its parameters, and the first part
\* of parseParameters on them.
GetClass(c, bundles) ==
  /\ call[c].pc = "getClass"
  /\ LET cur == Did(call[c], "ClassGet")
     IN  \/ call' = [call EXCEPT ![c] = Fail(cur, errClassGet)]
         \/ \E parameters \in bundles :
              \E order \in Perms(DOMAIN parameters) :
                call' = [call EXCEPT ![c] =
                  afterParseKeys([cur EXCEPT !.parameters = parameters],
                                 parameters, order)]
  /\ UNCHANGED <<identity, uuids, secrets, shares, execs, pvs, started>>

\* The agent command of a Delete that also removes the volume's secret.
ExecDestroyDropsSecret(c) ==
  /\ call[c].pc = "exec"
  /\ call[c].kind = "Delete"
  /\ \E status \in ExitStatuses :
       LET cur == [Did(call[c], "AgentDestroy") EXCEPT !.exit = status]
       IN  /\ execs' = execs \cup {[mode |-> "destroy", share |-> cur.share,
                                    user |-> cur.user, pvName |-> cur.volume.name]}
           /\ IF cmdFailed(status)
                THEN /\ call' = [call EXCEPT ![c] = Fail(cur, errCmd)]
                     /\ UNCHANGED <<shares, secrets>>
                ELSE /\ call' = [call EXCEPT ![c] = Returned(cur, <<>>, Nil)]
                     /\ shares' = shares \ {[share |-> cur.share, user |-> cur.user]}
                     /\ secrets' = {o \in secrets : o.name # cur.volume.secretRef}
  /\ UNCHANGED <<identity, uuids, pvs, started>>

\* Delete's agent command in destroy mode. On exit status zero the agent has
\* removed the share.
ExecDestroy(c) ==
  /\ call[c].pc = "exec"
  /\ call[c].kind = "Delete"
  /\ \E status \in ExitStatuses :
       LET cur == [Did(call[c], "AgentDestroy") EXCEPT !.exit = status]
       IN  /\ execs' = execs \cup {[mode |-> "destroy", share |-> cur.share,
                                    user |-> cur.user, pvName |-> cur.volume.name]}
           /\ IF cmdFailed(status)
                THEN /\ call' = [call EXCEPT ![c] = Fail(cur, errCmd)]
                     /\ UNCHANGED shares
                ELSE /\ call' = [call EXCEPT ![c] = Returned(cur, <<>>, Nil)]
                     /\ shares' = shares \ {[share |-> cur.share, user |-> cur.user]}
  /\ UNCHANGED <<identity, uuids, secrets, pvs, started>>

\* The caller takes the result of a finished call; the slot is free again.
Return(c) ==
  /\ call[c].pc = "done"
  /\ call' = [call EXCEPT ![c] = IdleCall]
  /\ UNCHANGED <<identity, uuids, secrets, shares, execs, pvs, started>>

\* One call at a time, in slot 1, over all the bundles.
Next ==
  \E c \in {1} :
    \/ ProvisionBegin(c, Bundles)
    \/ GetSecret(c)
    \/ ExecCreate(c, AgentOutputs)
    \/ CreateSecret(c)
    \/ DeleteBegin(c)
    \/ GetClass(c, Bundles)
    \/ ExecDestroy(c)
    \/ Return(c)

Spec == Init /\ [][Next]_vars

\* The bundles of concurrent calls: a complete one and one with an unknown
\* key.
ConcBundles ==
  {MapOf({<<keyMonitors, <<"a", ",", "b">>>>, <<keyAdminSecretName, adminName>>}),
   MapOf({<<keyMonitors, <<"a", ",", "b">>>>, <<keyAdminSecretName, adminName>>,
          <<keyPool, <<"x">>>>})}

\* What the agent prints to concurrent calls: nothing, or a complete record
\* whose path has a "/" or has none.
ConcOutputs ==
  {MapOf({})} \cup
  {MapOf({<<"path", v>>, <<"user", reportedUser>>, <<"auth", grantedAuth>>}) :
     v \in {<<"v">>, <<"c",":","/","v">>}}

\* Calls running concurrently in all the slots, their steps interleaved.
NextConc ==
  \E c \in Slots :
    \/ ProvisionBegin(c, ConcBundles)
    \/ GetSecret(c)
    \/ ExecCreate(c, ConcOutputs)
    \/ CreateSecret(c)
    \/ DeleteBegin(c)
    \/ GetClass(c, ConcBundles)
    \/ ExecDestroy(c)
    \/ Return(c)

SpecConc == Init /\ [][NextConc]_vars

\* ------------------------------------------------------------- properties

Steps(c) == Range(call[c].trace)
AgentSteps == {"AgentCreate", "AgentDestroy"}
IsProvision(c) == call[c].kind = "Provision"
IsDelete(c) == call[c].kind = "Delete"
Done(c) == call[c].pc = "done"
Ann(c) == call[c].volume.annotations
HasAnn(c, k) == k \in DOMAIN Ann(c)
\* The secret store holds an object under the name made from the call's user.
SecretMade(c) == \E o \in secrets : o.name = secretNameOf(call[c].user)

\* C1: Delete on a volume whose identity annotation is present and differs
\* from the instance's identity returns the ignorable error and makes no call
\* to the agent, the class store or the secret store; the agent runs in
\* destroy mode only for volumes whose identity annotation is the caller's.
C1_ForeignVolume(c) ==
  /\ IsDelete(c)
  /\ HasAnn(c, provisionerIDAnn)
  /\ Ann(c)[provisionerIDAnn] # identity[call[c].inst]
C1_ForeignDeleteIgnored ==
  \A c \in Slots :
    /\ C1_ForeignVolume(c) =>
         /\ Done(c)
         /\ call[c].err = errIgnored
         /\ call[c].trace = <<>>
    /\ "AgentDestroy" \in Steps(c) =>
         /\ HasAnn(c, provisionerIDAnn)
         /\ Ann(c)[provisionerIDAnn] = identity[call[c].inst]
C1_Witness == \E c \in Slots : C1_ForeignVolume(c) /\ Done(c)

\* C2: the ownership check of Delete has three outcomes fixed by the volume
\* and the identity: a volume stamped by Provision is Owned for the identity
\* it was stamped with (Delete goes on to the class lookup) and NotMine for
\* any other; a volume with neither ownership annotation is NotFound.
C2_Outcome(c) ==
  IF call[c].err = errIgnored THEN "NotMine"
  ELSE IF call[c].err \in {errNoIdentityAnn, errNoShareAnn} THEN "NotFound"
  ELSE "Owned"
C2_Stamped(c) == HasAnn(c, provisionerIDAnn) /\ HasAnn(c, cephShareAnn)
RecognizedKeys ==
  {keyCluster, keyMonitors, keyAdminId, keyAdminSecretName, keyAdminSecretNamespace}
RecognizedLower == {ToLower(r) : r \in RecognizedKeys}
Unrecognized(k) == ToLower(k) \notin RecognizedLower
\* The call has handed its bundle to parseParameters.
Resolving(c) ==
  \/ IsProvision(c) /\ ~call[c].selector
  \/ IsDelete(c) /\ "ClassGet" \in Steps(c) /\ call[c].err # errClassGet

\* C3: a bundle with an unrecognized key makes parameter resolution fail with
\* no values returned, and Provision or Delete ends there, with no read of
\* the secret store and no agent command, whatever the order of the keys.
C3_HasUnrecognized(c) ==
  Resolving(c) /\ \E k \in DOMAIN call[c].parameters : Unrecognized(k)
C3_UnrecognizedKeyFails ==
  \A c \in Slots :
    C3_HasUnrecognized(c) =>
      /\ Done(c)
      /\ call[c].err = errInvalidOption
      /\ call[c].conn = NoConn
      /\ call[c].frame = NoFrame
      /\ call[c].pv = <<>>
      /\ Steps(c) \cap (AgentSteps \cup {"SecretGet", "SecretCreate"}) = {}
C3_Witness ==
  \E c \in Slots :
    /\ C3_HasUnrecognized(c)
    /\ IsDelete(c)
    /\ keyMonitors \in DOMAIN call[c].parameters
    /\ keyAdminSecretName \in DOMAIN call[c].parameters
    /\ call[c].parameters[keyAdminSecretName] = adminName

\* C4: a bundle with no monitors key, or whose monitors value has no entry
\* that is not empty once split on commas, makes parameter resolution fail,
\* and no agent command runs.
C4_IsMonitors(k) == ToLower(k) = ToLower(keyMonitors)
C4_NoMonitorEntry(c) ==
  /\ Resolving(c)
  /\ \A k \in DOMAIN call[c].parameters :
       C4_IsMonitors(k) =>
         \A i \in DOMAIN call[c].parameters[k] : call[c].parameters[k][i] = ","
C4_NoMonitorsFails ==
  \A c \in Slots :
    C4_NoMonitorEntry(c) =>
      /\ call[c].conn = NoConn
      /\ call[c].pc \notin {"exec", "createSecret"}
      /\ Steps(c) \cap AgentSteps = {}
      /\ Done(c) => call[c].err # Nil

\* C5: when the agent exits with status zero and its record lacks path, user
\* or auth, Provision returns an error and no volume, and creates no secret.
C5_RecordIncomplete(c) ==
  /\ IsProvision(c)
  /\ call[c].exit = 0
  /\ \/ call[c].res.Path = <<>>
     \/ call[c].res.User = <<>>
     \/ call[c].res.Secret = <<>>
C5_IncompleteOutputFails ==
  \A c \in Slots :
    C5_RecordIncomplete(c) =>
      /\ Done(c)
      /\ call[c].err = errInvalidOutput
      /\ call[c].pv = <<>>
      /\ "SecretCreate" \notin Steps(c)
      /\ ~SecretMade(c)
C5_Witness ==
  \E c \in Slots :
    /\ C5_RecordIncomplete(c)
    /\ call[c].res.Path = <<>>
    /\ call[c].res.User # <<>>
    /\ call[c].res.Secret # <<>>

\* C6: when the agent exits with a status that is not zero in create mode,
\* Provision returns an error and no volume, and creates no secret.
C6_AgentFailed(c) == IsProvision(c) /\ call[c].exit \notin {NotRun, 0}
C6_AgentFailureFails ==
  \A c \in Slots :
    C6_AgentFailed(c) =>
      /\ Done(c)
      /\ call[c].err = errCmd
      /\ call[c].pv = <<>>
      /\ "SecretCreate" \notin Steps(c)
      /\ ~SecretMade(c)
C6_Witness == \E c \in Slots : C6_AgentFailed(c) /\ "AgentCreate" \in Steps(c)

\* C7: a Provision request with a selector fails at once: no secret store
\* read, no agent command, no secret created, no volume returned.
C7_HasSelector(c) == IsProvision(c) /\ call[c].selector
C7_SelectorRejected ==
  \A c \in Slots :
    C7_HasSelector(c) =>
      /\ Done(c)
      /\ call[c].err = errSelector
      /\ call[c].trace = <<>>
      /\ call[c].pv = <<>>
C7_Witness ==
  \E c \in Slots :
    /\ C7_HasSelector(c)
    /\ keyMonitors \in DOMAIN call[c].parameters
    /\ keyAdminSecretName \in DOMAIN call[c].parameters
    /\ \A k \in DOMAIN call[c].parameters : ~Unrecognized(k)

\* A Provision call that has returned a volume.
Succeeded(c) == IsProvision(c) /\ Done(c) /\ call[c].err = Nil

\* C8, as claimed: the user recorded on the volume Provision returns is the
\* user the agent reported in its record.
C8_UserIsReported ==
  \A c \in Slots :
    Succeeded(c) => call[c].pv[1].user = call[c].res.User

\* C8, amended: the user recorded on the volume Provision returns is the
\* user name Provision generated and gave the agent in create mode, whatever
\* user the agent reported.
C8_UserIsGenerated ==
  \A c \in Slots :
    Succeeded(c) =>
      /\ Len(call[c].pv) = 1
      /\ call[c].pv[1].user = call[c].user
      /\ call[c].user[1] = userPrefix
      /\ \E e \in execs :
           /\ e.mode = "create"
           /\ e.pvName = call[c].pvName
           /\ e.user = call[c].pv[1].user
C8_Witness ==
  \E c \in Slots : Succeeded(c) /\ call[c].res.User = reportedUser

\* C9: Delete of a volume Provision returned runs the agent in destroy mode
\* with the share and user the agent was given in create mode for that
\* volume, both read off the volume: the share annotation and the user.
C9_DestroyUsesCreateNames ==
  \A c \in Slots :
    (IsDelete(c) /\ "AgentDestroy" \in Steps(c)) =>
      /\ call[c].share = Ann(c)[cephShareAnn]
      /\ call[c].user = call[c].volume.user
      /\ \E e \in execs :
           /\ e.mode = "create"
           /\ e.pvName = call[c].volume.name
           /\ e.share = call[c].share
           /\ e.user = call[c].user
           /\ [e EXCEPT !.mode = "destroy"] \in execs
C9_Witness ==
  \E c \in Slots : IsDelete(c) /\ "AgentDestroy" \in Steps(c) /\ call[c].err = Nil

\* C10: when the creation of the secret fails after the agent made the
\* share, Provision returns an error and no volume, the share stays on the
\* cluster, and the call runs no agent command in destroy mode.
C10_CreateFailed(c) ==
  IsProvision(c) /\ "SecretCreate" \in Steps(c) /\ call[c].err = errCreateSecret
C10_NoRollback ==
  \A c \in Slots :
    C10_CreateFailed(c) =>
      /\ Done(c)
      /\ call[c].pv = <<>>
      /\ \A pv \in pvs : pv.name # call[c].pvName
      /\ [share |-> call[c].share, user |-> call[c].user] \in shares
      /\ "AgentDestroy" \notin Steps(c)
      /\ \A e \in execs : e.share = call[c].share => e.mode = "create"
C10_Witness ==
  \E c \in Slots : C10_CreateFailed(c) /\ call[c].exit = 0

\* C11: when Provision succeeds, the call has created one secret, in the
\* claim's namespace, under the name made from the user name the call
\* generated, holding the secret value the agent granted; the volume's secret
\* reference is that name.
C11_OneSecretCreated ==
  \A c \in Slots :
    Succeeded(c) =>
      /\ Len(call[c].pv) = 1
      /\ call[c].pv[1].secretRef = secretNameOf(call[c].user)
      /\ call[c].user = userName(call[c].user[2])
      /\ {o \in secrets : o.name = call[c].pv[1].secretRef} =
           {[namespace |-> claimNamespace, name |-> call[c].pv[1].secretRef,
             data |-> MapOf({<<"key", call[c].res.Secret>>})]}
      /\ Cardinality({i \in DOMAIN call[c].trace :
                        call[c].trace[i] = "SecretCreate"}) = 1
C11_Witness ==
  \E c \in Slots : Succeeded(c) /\ call[c].res.Secret = grantedAuth

\* C12: when the agent exits with status zero and a complete record, and the
\* secret is created, Provision returns a volume whose path is the agent's
\* path from its first "/" on, so the path of every returned volume starts
\* with "/".
C12_CreateOtherwiseSucceeds(c) ==
  /\ IsProvision(c) /\ Done(c)
  /\ call[c].res.Path # <<>>
  /\ "SecretCreate" \in Steps(c)
  /\ call[c].err # errCreateSecret
C12_PathFromFirstSlash ==
  \A c \in Slots :
    C12_CreateOtherwiseSucceeds(c) =>
      /\ call[c].err = Nil
      /\ Len(call[c].pv) = 1
      /\ Len(call[c].pv[1].path) >= 1
      /\ call[c].pv[1].path[1] = "/"
      /\ \E i \in DOMAIN call[c].res.Path :
           /\ call[c].res.Path[i] = "/"
           /\ \A j \in 1..(i - 1) : call[c].res.Path[j] # "/"
           /\ call[c].pv[1].path = SubSeq(call[c].res.Path, i, Len(call[c].res.Path))

\* C13: a connection that parseParameters has returned has at least one
\* monitor and a non-empty admin secret value, whatever the data of the
\* admin secret in the store.
C13_ConnectionComplete ==
  \A c \in Slots :
    call[c].conn # NoConn =>
      /\ Len(call[c].conn.mon) >= 1
      /\ call[c].conn.adminSecret # <<>>

\* C14: Provision calls on the instances, interleaved in any way or one after
\* another, draw distinct share names and distinct user names, hence distinct
\* secret names; the volume a call returns carries the share, the user and
\* the secret reference of that call.
C14_DistinctNames ==
  /\ \A c1, c2 \in Slots :
       (/\ c1 # c2
        /\ IsProvision(c1) /\ call[c1].share # <<>>
        /\ IsProvision(c2) /\ call[c2].share # <<>>) =>
         /\ call[c1].share # call[c2].share
         /\ call[c1].user # call[c2].user
         /\ secretNameOf(call[c1].user) # secretNameOf(call[c2].user)
  /\ \A e1, e2 \in execs :
       (e1.mode = "create" /\ e2.mode = "create" /\ e1.pvName # e2.pvName) =>
         /\ e1.share # e2.share
         /\ e1.user # e2.user
         /\ secretNameOf(e1.user) # secretNameOf(e2.user)
  /\ \A c \in Slots :
       Succeeded(c) =>
         /\ call[c].pv[1].annotations[cephShareAnn] = call[c].share
         /\ call[c].pv[1].user = call[c].user
         /\ call[c].pv[1].secretRef = secretNameOf(call[c].user)
  /\ \A p1, p2 \in pvs :
       p1.name # p2.name =>
         /\ p1.annotations[cephShareAnn] # p2.annotations[cephShareAnn]
         /\ p1.user # p2.user
         /\ p1.secretRef # p2.secretRef
C14_Witness ==
  /\ Succeeded(1) /\ Succeeded(2)
  /\ call[1].pv # call[2].pv

\* The external calls of a Provision and of a Delete, in the order of the code.
ProvisionOrder == <<"SecretGet", "AgentCreate", "SecretCreate">>
DeleteOrder == <<"ClassGet", "SecretGet", "AgentDestroy">>
IsPrefix(s, t) == Len(s) <= Len(t) /\ s = SubSeq(t, 1, Len(s))
LastStep(c) ==
  IF call[c].trace = <<>> THEN Nil ELSE call[c].trace[Len(call[c].trace)]
\* The annotations say the volume is the instance's own and name its share.
OwnedWithShare(c) ==
  /\ HasAnn(c, provisionerIDAnn)
  /\ Ann(c)[provisionerIDAnn] = identity[call[c].inst]
  /\ HasAnn(c, cephShareAnn)

\* C15: the external steps of a Provision come in the order selector check,
\* parameter and secret resolution, agent create, secret creation, return of
\* the volume; those of a Delete in the order ownership check, class lookup,
\* parameter and secret resolution, agent destroy. A step starts only when
\* all the steps before it have succeeded, and a call whose step has failed
\* takes no further step.
C15_StepsInOrder ==
  \A c \in Slots :
    /\ call[c].kind = Nil => call[c].trace = <<>>
    /\ IsProvision(c) => IsPrefix(call[c].trace, ProvisionOrder)
    /\ IsDelete(c) => IsPrefix(call[c].trace, DeleteOrder)
    /\ (IsProvision(c) /\ call[c].selector) =>
         Done(c) /\ call[c].err = errSelector /\ call[c].trace = <<>>
    /\ (IsDelete(c) /\ ~OwnedWithShare(c)) =>
         Done(c) /\ call[c].err # Nil /\ call[c].trace = <<>>
    /\ call[c].pc = "getClass" => call[c].trace = <<>> /\ call[c].err = Nil
    /\ call[c].pc = "getSecret" =>
         /\ call[c].err = Nil
         /\ call[c].frame # NoFrame
         /\ call[c].trace = IF IsDelete(c) THEN <<"ClassGet">> ELSE <<>>
    /\ call[c].pc = "exec" =>
         /\ call[c].err = Nil
         /\ call[c].conn # NoConn
         /\ LastStep(c) = "SecretGet"
    /\ call[c].pc = "createSecret" =>
         /\ call[c].err = Nil
         /\ call[c].exit = 0
         /\ call[c].res.Path # <<>> /\ call[c].res.User # <<>>
         /\ call[c].res.Secret # <<>>
         /\ LastStep(c) = "AgentCreate"
    /\ (Done(c) /\ call[c].err = Nil) =>
         /\ call[c].exit = 0
         /\ call[c].trace = IF IsDelete(c) THEN DeleteOrder ELSE ProvisionOrder
         /\ IsProvision(c) => Len(call[c].pv) = 1
    /\ call[c].err # Nil =>
         /\ Done(c)
         /\ call[c].pv = <<>>
         /\ call[c].err \in {errInvalidOption, errMissingSecretName} =>
              "SecretGet" \notin Steps(c) /\ call[c].exit = NotRun
         /\ call[c].err \in {errGetAdminSecret, errMissingMonitors} =>
              LastStep(c) = "SecretGet" /\ call[c].exit = NotRun
         /\ call[c].err = errClassGet => LastStep(c) = "ClassGet"
         /\ call[c].err = errCmd =>
              LastStep(c) \in AgentSteps /\ call[c].exit # 0
         /\ call[c].err = errInvalidOutput => LastStep(c) = "AgentCreate"
         /\ call[c].err \in {errCreateSecret, errPanic} =>
              LastStep(c) = "SecretCreate"
    /\ call[c].exit \notin {NotRun, 0} =>
         Done(c) /\ call[c].err = errCmd /\ LastStep(c) \in AgentSteps
C15_Witness ==
  \E c \in Slots :
    /\ IsProvision(c) /\ Done(c)
    /\ call[c].err = errCreateSecret
    /\ call[c].trace = ProvisionOrder

\* C16: the identity of an instance is the one it was constructed with and
\* never changes; every volume an instance returns is stamped with it, and it
\* is the identity Delete compares a volume's stamp with.
C16_IdentityFixed ==
  /\ identity = [i \in Instances |-> i]
  /\ \A p \in pvs : \E i \in Instances : p.annotations[provisionerIDAnn] = identity[i]
  /\ \A c \in Slots :
       /\ Succeeded(c) =>
            /\ call[c].pv[1].annotations[provisionerIDAnn] = identity[call[c].inst]
            /\ call[c].pv[1] \in pvs
       /\ (IsDelete(c) /\ HasAnn(c, provisionerIDAnn)) =>
            (call[c].err = errIgnored <=>
               Ann(c)[provisionerIDAnn] # identity[call[c].inst])
C16_Witness ==
  \E c \in Slots :
    /\ IsDelete(c) /\ Done(c) /\ call[c].err = Nil
    /\ call[c].inst = 2
    /\ \E p \in pvs :
         /\ p.name = call[c].volume.name
         /\ p.annotations[provisionerIDAnn] = Ann(c)[provisionerIDAnn]
         /\ p.annotations[provisionerIDAnn] = identity[2]

\* The errors of getClassForVolume and of parseParameters.
LookupErrors == {errNoClassAnn, errClassGet}
ResolutionErrors ==
  {errInvalidOption, errMissingSecretName, errGetAdminSecret, errMissingMonitors}
\* The share of the volume a Delete works on is still allocated to its user.
ShareAllocated(c) ==
  [share |-> call[c].share, user |-> call[c].volume.user] \in shares
\* Some Delete has had the agent destroy the share of the call's volume.
DestroyedBefore(c) ==
  \E e \in execs : e.mode = "destroy" /\ e.share = call[c].share

\* C17: in a Delete of a volume the instance owns, when the class lookup
\* fails (no class annotation, or the class cannot be read) or parameter and
\* secret resolution fails, Delete returns an error that is not the ignorable
\* one, the agent is not run, and the share stays allocated.
C17_LookupFailureKeepsShare ==
  \A c \in Slots :
    (IsDelete(c) /\ OwnedWithShare(c)) =>
      /\ ~HasAnn(c, classAnn) =>
           Done(c) /\ call[c].err = errNoClassAnn /\ call[c].trace = <<>>
      /\ call[c].err \in LookupErrors \cup ResolutionErrors =>
           /\ Done(c)
           /\ call[c].err \notin {Nil, errIgnored}
           /\ "AgentDestroy" \notin Steps(c)
           /\ call[c].exit = NotRun
           /\ ~DestroyedBefore(c) => ShareAllocated(c)
      /\ (Done(c) /\ "AgentDestroy" \notin Steps(c)) =>
           call[c].err \in LookupErrors \cup ResolutionErrors
C17_Witness ==
  \E c \in Slots :
    /\ IsDelete(c) /\ OwnedWithShare(c) /\ Done(c)
    /\ call[c].err = errGetAdminSecret
    /\ ShareAllocated(c)

\* The secret Provision made for the volume a Delete works on is in the store.
VolumeSecretKept(c) ==
  \E o \in secrets :
    o.namespace = claimNamespace /\ o.name = call[c].volume.secretRef

\* C18: no step of a Delete changes the secret store, and when a Delete has
\* returned without error the secret made by the Provision of its volume is
\* still in the store.
C18_DeleteKeepsSecrets ==
  [][\A c \in Slots :
       (call'[c] # call[c] /\ (IsDelete(c) \/ call'[c].kind = "Delete")) =>
         /\ secrets' = secrets
         /\ (call'[c].pc = "done" /\ call'[c].err = Nil) =>
              \E o \in secrets' :
                /\ o.namespace = claimNamespace
                /\ o.name = call'[c].volume.secretRef]_vars
C18_Witness ==
  \E c \in Slots :
    /\ IsDelete(c) /\ Done(c) /\ call[c].err = Nil
    /\ "AgentDestroy" \in Steps(c)
    /\ ~ShareAllocated(c)
    /\ VolumeSecretKept(c)

\* C19: Delete checks the identity annotation before the share annotation. A
\* volume with no identity annotation gives the missing-identity error whether
\* or not it has a share annotation; a volume whose identity annotation
\* differs from the instance's gives the ignorable error even with no share
\* annotation; the missing-share error comes only when the identity matches.
C19_IdentityCheckedFirst ==
  \A c \in Slots :
    IsDelete(c) =>
      /\ ~HasAnn(c, provisionerIDAnn) =>
           Done(c) /\ call[c].err = errNoIdentityAnn
      /\ (/\ HasAnn(c, provisionerIDAnn)
          /\ Ann(c)[provisionerIDAnn] # identity[call[c].inst]) =>
           Done(c) /\ call[c].err = errIgnored
      /\ call[c].err = errNoShareAnn <=>
           /\ HasAnn(c, provisionerIDAnn)
           /\ Ann(c)[provisionerIDAnn] = identity[call[c].inst]
           /\ ~HasAnn(c, cephShareAnn)
C19_Witness ==
  \E c \in Slots :
    /\ IsDelete(c) /\ Done(c)
    /\ HasAnn(c, provisionerIDAnn)
    /\ Ann(c)[provisionerIDAnn] # identity[call[c].inst]
    /\ ~HasAnn(c, cephShareAnn)
    /\ call[c].err = errIgnored

\* The call's bundle names an admin secret: it has an adminSecretName key, in
\* any case, with a value that is not empty.
C20_NameGiven(c) ==
  \E k \in DOMAIN call[c].parameters :
    /\ ToLower(k) = ToLower(keyAdminSecretName)
    /\ call[c].parameters[k] # <<>>
C20_Reads(c) ==
  Cardinality({i \in DOMAIN call[c].trace : call[c].trace[i] = "SecretGet"})
\* Every read of the admin secret the call's bundle names fails: no object of
\* that name and namespace in the store has an entry.
C20_ReadMustFail(c) ==
  \A o \in secrets :
    (/\ o.namespace = call[c].frame.adminSecretNamespace
     /\ o.name = call[c].frame.adminSecretName) => DOMAIN o.data = {}

\* C20: parameter resolution reads the secret store at most once in a call:
\* not at all when the bundle has an unrecognized key or no non-empty
\* adminSecretName, and once otherwise, before the monitors check. A bundle
\* with recognized keys and an adminSecretName but no monitors has its one
\* read, and when the read fails the call reports the failure of the read, not
\* the missing monitors.
C20_ReadsStoreOnce ==
  \A c \in Slots :
    Resolving(c) =>
      /\ C20_Reads(c) <= 1
      /\ (C3_HasUnrecognized(c) \/ ~C20_NameGiven(c)) =>
           /\ Done(c)
           /\ C20_Reads(c) = 0
           /\ call[c].err \in {errInvalidOption, errMissingSecretName}
      /\ (~C3_HasUnrecognized(c) /\ C20_NameGiven(c)) =>
           IF call[c].pc = "getSecret" THEN C20_Reads(c) = 0 ELSE C20_Reads(c) = 1
      /\ call[c].err = errMissingMonitors => C20_Reads(c) = 1
      /\ (C20_Reads(c) = 1 /\ C20_ReadMustFail(c)) =>
           Done(c) /\ call[c].err = errGetAdminSecret
C20_Witness ==
  \E c \in Slots :
    /\ Resolving(c) /\ Done(c)
    /\ C20_NameGiven(c)
    /\ \A k \in DOMAIN call[c].parameters : ~C4_IsMonitors(k)
    /\ C20_Reads(c) = 1
    /\ call[c].err = errGetAdminSecret

====
